---- MODULE Spec2Model ----
(***************************************************************************)
(* Model of packages/xdl/src/AssetUtils.ts (expo-cli): the asset           *)
(* optimization cache.  Paths and glob patterns are sequences of tokens:   *)
(* the token "/" is the path separator, "." the extension dot, "*" and     *)
(* "**" the glob wildcards, every other token a run of ordinary            *)
(* characters.                                                             *)
(***************************************************************************)
EXTENDS Integers, Sequences, FiniteSets, TLC

\* ------------------------------------------------------------- bounds
\* Largest number of entries of a project tree in the selector specification.
MaxTree == 3
\* Largest number of entries of a project tree in the filesystem specification.
MaxTreeFs == 2
\* Number of distinct file contents (and so of distinct digests).
NumContents == 2
\* Largest number of tokens of a path given to createNewFilename.
MaxPathLen == 5
\* The number of readAssetJsonAsync invocations in flight together.
NumLoads == 2

\* ------------------------------------------------------ values of JS
\* The value of an optional string option that was not passed.
Undefined == <<"<undefined>">>

\* JS truthiness of an optional string: undefined and "" are falsy.
Truthy(s) == s /= Undefined /\ s /= <<>>

\* ------------------------------------------------------- the project
\* Every entry a project tree may hold, in the order glob.sync sorts its
\* matches.  "icons.png" is a directory whose name ends in .png.
Universe ==
  << [path |-> <<"a", ".", "png">>, kind |-> "file"],
     [path |-> <<"android", "/", "r", ".", "png">>, kind |-> "file"],
     [path |-> <<"assets", "/", "d", ".", "PNG">>, kind |-> "file"],
     [path |-> <<"assets", "/", "e", ".", "jpeg">>, kind |-> "file"],
     [path |-> <<"b", ".", "png">>, kind |-> "file"],
     [path |-> <<"c", ".", "jpg">>, kind |-> "file"],
     [path |-> <<"icons", ".", "png">>, kind |-> "dir"],
     [path |-> <<"node_modules", "/", "m", ".", "png">>, kind |-> "file"],
     [path |-> <<"notes", ".", "txt">>, kind |-> "file"] >>

\* The project roots a call is made with.
ProjectDirs ==
  { <<"/", "proj">>, <<"/", "proj", "/">>, <<"/", "x", "/", "/", "proj", "/">> }

\* The glob patterns passed as --include / --exclude or configured as
\* assetBundlePatterns.
StarPng == <<"*", ".", "png">>
BPng == <<"b", ".", "png">>
AssetsAll == <<"assets", "/", "**", "/", "*">>
Everything == <<"**", "/", "*">>
NoMatch == <<"zzz", "/", "*">>

OptionPatterns == { Undefined, <<>>, StarPng, BPng, AssetsAll, NoMatch }

\* exp.assetBundlePatterns of app.json: not configured, or a list of patterns.
BundleConfigs ==
  { [defined |-> FALSE, value |-> <<>>],
    [defined |-> TRUE, value |-> <<>>],
    [defined |-> TRUE, value |-> <<AssetsAll>>],
    [defined |-> TRUE, value |-> <<StarPng, BPng>>] }

\* The options object of a call; defined = FALSE is a call without options.
OptionValues ==
  { [defined |-> FALSE, include |-> Undefined, exclude |-> Undefined] } \cup
  [defined : {TRUE}, include : OptionPatterns, exclude : OptionPatterns]

\* --------------------------------------------------------------- glob
\* minimatch of a relative path s against a pattern p, both at the start of
\* a path segment when p starts with "**".
RECURSIVE Match(_, _)
Match(p, s) ==
  IF p = <<>> THEN s = <<>>
  ELSE IF Head(p) = "**" THEN
    IF Len(p) = 1 THEN s /= <<>>
    ELSE \/ Match(SubSeq(p, 3, Len(p)), s)
         \/ \E i \in 1..Len(s) :
              /\ s[i] = "/"
              /\ Match(SubSeq(p, 3, Len(p)), SubSeq(s, i + 1, Len(s)))
  ELSE IF Head(p) = "*" THEN
    \E k \in 0..Len(s) :
      /\ \A j \in 1..k : s[j] /= "/"
      /\ Match(Tail(p), SubSeq(s, k + 1, Len(s)))
  ELSE s /= <<>> /\ Head(s) = Head(p) /\ Match(Tail(p), Tail(s))

\* globOptions.ignore
IgnorePatterns ==
  { <<"**", "/", "node_modules", "/", "**">>,
    <<"**", "/", "ios", "/", "**">>,
    <<"**", "/", "android", "/", "**">> }

Ignored(s) == \E ig \in IgnorePatterns : Match(ig, s)

\* glob.sync(pattern, globOptions) on a tree (a set of indices of Universe):
\* the matching entries that are not ignored, relative to cwd, sorted.
RECURSIVE GlobFrom(_, _, _)
GlobFrom(pattern, tree, i) ==
  IF i > Len(Universe) THEN <<>>
  ELSE (IF i \in tree /\ Match(pattern, Universe[i].path)
            /\ ~Ignored(Universe[i].path)
        THEN <<Universe[i].path>> ELSE <<>>)
       \o GlobFrom(pattern, tree, i + 1)

GlobSync(pattern, tree) == GlobFrom(pattern, tree, 1)

\* ------------------------------------------------------- filterImages
\* String.prototype.replace('//', '/'): a string pattern replaces the first
\* occurrence only.
RECURSIVE ReplaceFirstDoubleSlash(_)
ReplaceFirstDoubleSlash(s) ==
  IF Len(s) < 2 THEN s
  ELSE IF s[1] = "/" /\ s[2] = "/" THEN Tail(s)
  ELSE <<Head(s)>> \o ReplaceFirstDoubleSlash(Tail(s))

\* The extension test applied to the path as it is, without toLowerCase.
ToLowerCase_Skipped(s) == s

\* String.prototype.toLowerCase on one token.
LowerToken(t) ==
  CASE t = "PNG" -> "png"
    [] t = "JPG" -> "jpg"
    [] t = "JPEG" -> "jpeg"
    [] OTHER -> t

ToLowerCase(s) == [i \in 1..Len(s) |-> LowerToken(s[i])]

\* /\.(png|jpg|jpeg)$/.test(s)
RegexTest(s) ==
  /\ Len(s) >= 2
  /\ s[Len(s) - 1] = "."
  /\ s[Len(s)] \in {"png", "jpg", "jpeg"}

\* `${projectDir}/${file}`.replace('//', '/')
WithDirectory(projectDir, file) ==
  ReplaceFirstDoubleSlash(projectDir \o <<"/">> \o file)

IsImage(file) == RegexTest(ToLowerCase(file))

FilterImages(files, projectDir) ==
  LET withDirectory == [i \in 1..Len(files) |-> WithDirectory(projectDir, files[i])]
  IN SelectSeq(withDirectory, IsImage)

\* ------------------------------------------------- getAssetFilesAsync
Range(seq) == { seq[i] : i \in 1..Len(seq) }

\* patterns.forEach(pattern => allFiles.push(...glob.sync(pattern, globOptions)))
RECURSIVE PushAll(_, _)
PushAll(patterns, tree) ==
  IF patterns = <<>> THEN <<>>
  ELSE GlobSync(Head(patterns), tree) \o PushAll(Tail(patterns), tree)

\* assetBundlePatterns || ['**/*'] (an empty array is truthy)
BundlePatterns(config) == IF config.defined THEN config.value ELSE <<Everything>>

HasInclude(options) == options.defined /\ Truthy(options.include)
HasExclude(options) == options.defined /\ Truthy(options.exclude)

\* The include expansion intersected with the bundle-pattern matches.
Included_WithinAllFiles(options, tree, allFiles) ==
  LET InAll(file) == file \in Range(allFiles)
  IN IF HasInclude(options)
     THEN SelectSeq(GlobSync(options.include, tree), InAll)
     ELSE allFiles

\* The selection defaulting to the whole tree, not to allFiles.
Included_DefaultEverything(options, tree, allFiles) ==
  IF HasInclude(options) THEN GlobSync(options.include, tree)
  ELSE GlobSync(Everything, tree)

Included(options, tree, allFiles) ==
  IF HasInclude(options) THEN GlobSync(options.include, tree) ELSE allFiles

ToExclude(options, tree) ==
  IF HasExclude(options) THEN Range(GlobSync(options.exclude, tree)) ELSE {}

\* The exclude expansion computed and never applied.
Filtered_ExcludeDropped(options, tree, included) == included

Filtered(options, tree, included) ==
  LET toExclude == ToExclude(options, tree)
      Keep(file) == file \notin toExclude
      excluded == SelectSeq(included, Keep)
  IN IF HasExclude(options) THEN excluded ELSE included

\* getAssetFilesAsync returning the included files as allFiles.
GetAssetFilesAsync_AllFromIncluded(projectDir, options, tree, config) ==
  LET patterns == BundlePatterns(config)
      allFiles == PushAll(patterns, tree)
      included == Included(options, tree, allFiles)
      filtered == Filtered(options, tree, included)
  IN [ allFiles |-> FilterImages(included, projectDir),
       selectedFiles |-> FilterImages(filtered, projectDir),
       globCalls |-> Len(patterns) + (IF HasInclude(options) THEN 1 ELSE 0)
                     + (IF HasExclude(options) THEN 1 ELSE 0),
       configReads |-> 1 ]

\* The value getAssetFilesAsync resolves to, with the number of glob.sync
\* calls and of configuration reads it made.
GetAssetFilesAsync(projectDir, options, tree, config) ==
  LET patterns == BundlePatterns(config)
      allFiles == PushAll(patterns, tree)
      included == Included(options, tree, allFiles)
      filtered == Filtered(options, tree, included)
  IN [ allFiles |-> FilterImages(allFiles, projectDir),
       selectedFiles |-> FilterImages(filtered, projectDir),
       globCalls |-> Len(patterns) + (IF HasInclude(options) THEN 1 ELSE 0)
                     + (IF HasExclude(options) THEN 1 ELSE 0),
       configReads |-> 1 ]

\* --------------------------------------------------------------- hash
Contents == 1..NumContents

\* crypto.createHash('sha256').update(contents).digest('hex'): distinct
\* contents have distinct digests.
Sha256(contents) == 4096 + 16 * contents

Digests == { Sha256(c) : c \in Contents }

\* The operating system's path resolution: every run of separators is one.
RECURSIVE Resolve(_)
Resolve(s) ==
  IF Len(s) < 2 THEN s
  ELSE IF s[1] = "/" /\ s[2] = "/" THEN Resolve(Tail(s))
  ELSE <<Head(s)>> \o Resolve(Tail(s))

\* The entries of the tree that filePath names.
EntriesAt(filePath, projectDir, tree) ==
  { i \in tree :
      Resolve(projectDir \o <<"/">> \o Universe[i].path) = Resolve(filePath) }

\* calculateHash: fs.readFileSync throws when the path names no regular file.
CalculateHash(filePath, projectDir, tree, contentOf) ==
  LET at == EntriesAt(filePath, projectDir, tree)
  IN IF at = {} \/ \E i \in at : Universe[i].kind /= "file"
     THEN [threw |-> TRUE, hash |-> 0]
     ELSE [threw |-> FALSE, hash |-> Sha256(contentOf[CHOOSE i \in at : TRUE])]

\* ----------------------------------------------------------- JsonFile
\* AssetOptimizationState: { [hash: string]: boolean }
EmptyRecord == [h \in {} |-> TRUE]

AssetOptimizationState == UNION { [D -> BOOLEAN] : D \in SUBSET Digests }

\* The document .expo-shared/assets.json on disk.
AbsentFile == [exists |-> FALSE, valid |-> FALSE, data |-> EmptyRecord]
CorruptFile == [exists |-> TRUE, valid |-> FALSE, data |-> EmptyRecord]
JsonDocument(object) == [exists |-> TRUE, valid |-> TRUE, data |-> object]

\* JsonFile.writeAsync(object): the document holds the object afterwards.
JsonWriteAsync(file, object) == JsonDocument(object)

\* JsonFile.readAsync(): the parsed object, or an error when the document
\* is missing or is not valid JSON.
JsonReadAsync(file) ==
  IF file.exists /\ file.valid
  THEN [threw |-> FALSE, value |-> file.data]
  ELSE [threw |-> TRUE, value |-> EmptyRecord]

\* ------------------------------------------------- readAssetJsonAsync
\* The existence test with its negation lost.
AssetJsonExists_Inverted(disk) == ~disk.manifest.exists

\* The existence test lost: the empty record is written on every load.
AssetJsonExists_Never(disk) == FALSE

\* fs.existsSync(assetJson.file)
AssetJsonExists(disk) == disk.manifest.exists

\* readAssetJsonAsync logging its notice before the existence test.
ReadAssetJsonAsync_AlwaysNotice(disk) ==
  LET mkdirs == IF disk.dirExists THEN 0 ELSE 1
      create == ~AssetJsonExists(disk)
      manifest == IF create THEN JsonWriteAsync(disk.manifest, EmptyRecord)
                  ELSE disk.manifest
      read == JsonReadAsync(manifest)
  IN [ disk |-> [dirExists |-> TRUE, manifest |-> manifest],
       threw |-> read.threw,
       assetInfo |-> read.value,
       mkdirs |-> mkdirs,
       writes |-> IF create THEN 1 ELSE 0,
       notices |-> 1 ]

\* readAssetJsonAsync recovering from a document it cannot parse by
\* writing the empty record over it.
ReadAssetJsonAsync_Recover(disk) ==
  LET mkdirs == IF disk.dirExists THEN 0 ELSE 1
      create == ~AssetJsonExists(disk) \/ JsonReadAsync(disk.manifest).threw
      manifest == IF create THEN JsonWriteAsync(disk.manifest, EmptyRecord)
                  ELSE disk.manifest
      read == JsonReadAsync(manifest)
  IN [ disk |-> [dirExists |-> TRUE, manifest |-> manifest],
       threw |-> read.threw,
       assetInfo |-> read.value,
       mkdirs |-> mkdirs,
       writes |-> IF create THEN 1 ELSE 0,
       notices |-> IF ~AssetJsonExists(disk) THEN 1 ELSE 0 ]

\* The outcome of readAssetJsonAsync on a disk [dirExists, manifest]: the
\* disk afterwards, what it returned, and what it did on the way.
ReadAssetJsonAsync(disk) ==
  LET mkdirs == IF disk.dirExists THEN 0 ELSE 1
      create == ~AssetJsonExists(disk)
      manifest == IF create THEN JsonWriteAsync(disk.manifest, EmptyRecord)
                  ELSE disk.manifest
      read == JsonReadAsync(manifest)
  IN [ disk |-> [dirExists |-> TRUE, manifest |-> manifest],
       threw |-> read.threw,
       assetInfo |-> read.value,
       mkdirs |-> mkdirs,
       writes |-> IF create THEN 1 ELSE 0,
       notices |-> IF create THEN 1 ELSE 0 ]

\* ------------------------------------------ hasUnoptimizedAssetsAsync
\* The lookup as a test of key presence: !(hash in assetInfo)
NotOptimized_KeyOnly(assetInfo, hash) == hash \notin DOMAIN assetInfo

\* !assetInfo[hash]
NotOptimized(assetInfo, hash) ==
  ~(hash \in DOMAIN assetInfo /\ assetInfo[hash])

\* for (const file of selectedFiles) { ... }: the result and the number of
\* files hashed.
RECURSIVE ScanFiles(_, _, _, _, _, _)
ScanFiles(files, assetInfo, projectDir, tree, contentOf, hashed) ==
  IF files = <<>> THEN [result |-> "false", hashCalls |-> hashed]
  ELSE LET h == CalculateHash(Head(files), projectDir, tree, contentOf)
       IN IF h.threw THEN [result |-> "throws", hashCalls |-> hashed + 1]
          ELSE IF NotOptimized(assetInfo, h.hash)
          THEN [result |-> "true", hashCalls |-> hashed + 1]
          ELSE ScanFiles(Tail(files), assetInfo, projectDir, tree, contentOf,
                         hashed + 1)

\* The short-circuit with its negation lost.
ManifestPathExists_Inverted(disk) == ~disk.manifest.exists

\* The short-circuit testing the directory: path.join(projectDir, '.expo-shared')
ManifestPathExists_Dir(disk) == disk.dirExists

\* fs.existsSync(path.join(projectDir, '.expo-shared/assets.json'))
ManifestPathExists(disk) == disk.manifest.exists

NoEffects ==
  [mkdirs |-> 0, writes |-> 0, notices |-> 0, configReads |-> 0,
   globCalls |-> 0, hashCalls |-> 0]

HasUnoptimizedAssetsAsync(projectDir, options, tree, contentOf, config, disk) ==
  IF ~ManifestPathExists(disk)
  THEN [result |-> "true", disk |-> disk, selectedFiles |-> <<>>,
        effects |-> NoEffects]
  ELSE LET sel == GetAssetFilesAsync(projectDir, options, tree, config)
           rd == ReadAssetJsonAsync(disk)
           scan == ScanFiles(sel.selectedFiles, rd.assetInfo, projectDir, tree,
                             contentOf, 0)
           io == [mkdirs |-> rd.mkdirs, writes |-> rd.writes,
                  notices |-> rd.notices, configReads |-> sel.configReads,
                  globCalls |-> sel.globCalls, hashCalls |-> 0]
       IN IF rd.threw
          THEN [result |-> "throws", disk |-> rd.disk,
                selectedFiles |-> sel.selectedFiles, effects |-> io]
          ELSE [result |-> scan.result, disk |-> rd.disk,
                selectedFiles |-> sel.selectedFiles,
                effects |-> [io EXCEPT !.hashCalls = scan.hashCalls]]

\* -------------------------------------------------- createNewFilename
\* The segments of a path: the runs of tokens between separators.
RECURSIVE Split(_)
Split(s) ==
  IF \A i \in 1..Len(s) : s[i] /= "/" THEN <<s>>
  ELSE LET k == CHOOSE i \in 1..Len(s) :
                  s[i] = "/" /\ \A j \in 1..(i - 1) : s[j] /= "/"
       IN <<SubSeq(s, 1, k - 1)>> \o Split(SubSeq(s, k + 1, Len(s)))

\* normalizeString of Node's path module: empty and "." segments are
\* dropped, ".." takes back the segment before it.
RECURSIVE NormalizeSegments(_, _, _)
NormalizeSegments(segments, res, allowAboveRoot) ==
  IF segments = <<>> THEN res
  ELSE LET seg == Head(segments)
           rest == Tail(segments)
       IN IF seg = <<>> \/ seg = <<".">>
          THEN NormalizeSegments(rest, res, allowAboveRoot)
          ELSE IF seg = <<".", ".">>
          THEN IF res /= <<>> /\ res[Len(res)] /= <<".", ".">>
               THEN NormalizeSegments(rest, SubSeq(res, 1, Len(res) - 1),
                                      allowAboveRoot)
               ELSE IF allowAboveRoot
               THEN NormalizeSegments(rest, Append(res, seg), allowAboveRoot)
               ELSE NormalizeSegments(rest, res, allowAboveRoot)
          ELSE NormalizeSegments(rest, Append(res, seg), allowAboveRoot)

RECURSIVE JoinSegments(_)
JoinSegments(segments) ==
  IF segments = <<>> THEN <<>>
  ELSE IF Len(segments) = 1 THEN Head(segments)
  ELSE Head(segments) \o <<"/">> \o JoinSegments(Tail(segments))

\* path.normalize (posix)
PathNormalize(p) ==
  IF p = <<>> THEN <<".">>
  ELSE LET isAbsolute == p[1] = "/"
           trailingSeparator == p[Len(p)] = "/"
           body == JoinSegments(NormalizeSegments(Split(p), <<>>, ~isAbsolute))
       IN IF body = <<>>
          THEN IF isAbsolute THEN <<"/">>
               ELSE IF trailingSeparator THEN <<".", "/">> ELSE <<".">>
          ELSE (IF isAbsolute THEN <<"/">> ELSE <<>>) \o body
               \o (IF trailingSeparator THEN <<"/">> ELSE <<>>)

\* path.join(dir, file) (posix), file not empty
PathJoin(dir, file) ==
  PathNormalize(IF dir = <<>> THEN file ELSE dir \o <<"/">> \o file)

\* path.parse (posix): dir, name and ext of a path
PathParse(p) ==
  LET isAbsolute == p /= <<>> /\ p[1] = "/"
      start == IF isAbsolute THEN 2 ELSE 1
      nonSlash == { i \in start..Len(p) : p[i] /= "/" }
      end == IF nonSlash = {} THEN 0
             ELSE CHOOSE i \in nonSlash : \A j \in nonSlash : j <= i
      slashes == { i \in start..(end - 1) : p[i] = "/" }
      lastSlash == IF slashes = {} THEN 0
                   ELSE CHOOSE i \in slashes : \A j \in slashes : j <= i
      base == IF end = 0 THEN <<>>
              ELSE SubSeq(p, IF lastSlash = 0 THEN start ELSE lastSlash + 1, end)
      dots == { i \in 1..Len(base) : base[i] = "." }
      startDot == IF dots = {} THEN 0
                  ELSE CHOOSE i \in dots : \A j \in dots : j <= i
      noExt == startDot = 0 \/ startDot = 1 \/ base = <<".", ".">>
  IN [ dir |-> IF lastSlash > 0 THEN SubSeq(p, 1, lastSlash - 1)
               ELSE IF isAbsolute THEN <<"/">> ELSE <<>>,
       base |-> base,
       name |-> IF noExt THEN base ELSE SubSeq(base, 1, startDot - 1),
       ext |-> IF noExt THEN <<>> ELSE SubSeq(base, startDot, Len(base)) ]

\* createNewFilename appending .orig after the extension.
CreateNewFilename_Appended(imagePath) ==
  LET parsed == PathParse(imagePath)
  IN PathJoin(parsed.dir, parsed.name \o parsed.ext \o <<".", "orig">>)

\* path.join(dir, name + '.orig' + ext)
CreateNewFilename(imagePath) ==
  LET parsed == PathParse(imagePath)
  IN PathJoin(parsed.dir, parsed.name \o <<".", "orig">> \o parsed.ext)

\* -------------------------------------------------------------- state
VARIABLES
  projectDir,   \* the project root the calls are made with
  tree,         \* the entries of the project tree (indices of Universe)
  contentOf,    \* the content of every entry of the tree
  config,       \* exp.assetBundlePatterns
  disk,         \* .expo-shared and .expo-shared/assets.json
  notices,      \* the notices logged so far (logger.global.info)
  last,         \* the last call: its arguments, the disk before it, its
                \* outcome, and which call came before it
  loads         \* the readAssetJsonAsync invocations in flight: where each
                \* one stands, what it loaded, which one finished first,
                \* whether that one has saved, and the disk they started on

vars == <<projectDir, tree, contentOf, config, disk, notices, last, loads>>

NoCall ==
  [op |-> "none", previous |-> "none",
   options |-> [defined |-> FALSE, include |-> Undefined, exclude |-> Undefined],
   before |-> [dirExists |-> FALSE, manifest |-> AbsentFile],
   result |-> "none", effects |-> NoEffects, assetInfo |-> EmptyRecord,
   allFiles |-> <<>>, selectedFiles |-> <<>>,
   imagePath |-> <<>>, newFilename |-> <<>>]

\* No invocation of readAssetJsonAsync has started.
NoLoads ==
  [ pc |-> [p \in 1..NumLoads |-> "start"],
    assetInfo |-> [p \in 1..NumLoads |-> EmptyRecord],
    first |-> 0,
    saved |-> FALSE,
    before |-> [dirExists |-> FALSE, manifest |-> AbsentFile] ]

Trees(entries, maxSize) ==
  { t \in SUBSET entries : Cardinality(t) <= maxSize }

\* A directory has no content of its own.
ContentMaps(t) ==
  { c \in [t -> Contents] : \A i \in t : Universe[i].kind = "dir" => c[i] = 1 }

Manifests ==
  {AbsentFile, CorruptFile} \cup { JsonDocument(r) : r \in AssetOptimizationState }

\* assets.json lives inside .expo-shared.
Disks ==
  { d \in [dirExists : BOOLEAN, manifest : Manifests] :
      d.manifest.exists => d.dirExists }

\* The projects of the filesystem specification: two image files and a
\* directory named like an image, under two of the roots.
FsEntries ==
  { i \in 1..Len(Universe) :
      Universe[i].path \in { <<"a", ".", "png">>, <<"b", ".", "png">>,
                             <<"icons", ".", "png">> } }

FsProjectDirs == { <<"/", "proj">>, <<"/", "x", "/", "/", "proj", "/">> }

FsBundleConfigs ==
  { [defined |-> FALSE, value |-> <<>>],
    [defined |-> TRUE, value |-> <<StarPng, BPng>>] }

FsOptionValues ==
  { [defined |-> FALSE, include |-> Undefined, exclude |-> Undefined],
    [defined |-> TRUE, include |-> Undefined, exclude |-> Undefined],
    [defined |-> TRUE, include |-> StarPng, exclude |-> Undefined],
    [defined |-> TRUE, include |-> Undefined, exclude |-> BPng],
    [defined |-> TRUE, include |-> NoMatch, exclude |-> <<>>],
    [defined |-> TRUE, include |-> BPng, exclude |-> NoMatch] }

\* ------------------------------------------------------------ actions
CallHasUnoptimizedAssets(options) ==
  /\ \E r \in { HasUnoptimizedAssetsAsync(projectDir, options, tree, contentOf,
                                           config, disk) } :
        /\ disk' = r.disk
        /\ notices' = notices + r.effects.notices
        /\ last' = [NoCall EXCEPT !.op = "hasUnoptimizedAssets",
                                  !.previous = last.op,
                                  !.options = options,
                                  !.before = disk,
                                  !.result = r.result,
                                  !.effects = r.effects,
                                  !.selectedFiles = r.selectedFiles]
  /\ UNCHANGED <<projectDir, tree, contentOf, config, loads>>

CallReadAssetJson ==
  /\ \E r \in { ReadAssetJsonAsync(disk) } :
        /\ disk' = r.disk
        /\ notices' = notices + r.notices
        /\ last' = [NoCall EXCEPT !.op = "readAssetJson",
                                  !.previous = last.op,
                                  !.before = disk,
                                  !.result = IF r.threw THEN "throws" ELSE "ok",
                                  !.effects = [NoEffects EXCEPT
                                                 !.mkdirs = r.mkdirs,
                                                 !.writes = r.writes,
                                                 !.notices = r.notices],
                                  !.assetInfo = r.assetInfo]
  /\ UNCHANGED <<projectDir, tree, contentOf, config, loads>>

CallGetAssetFiles(options) ==
  /\ last.op = "none"
  /\ \E r \in { GetAssetFilesAsync(projectDir, options, tree, config) } :
        last' = [NoCall EXCEPT !.op = "getAssetFiles",
                               !.options = options,
                               !.before = disk,
                               !.result = "ok",
                               !.effects = [NoEffects EXCEPT
                                              !.configReads = r.configReads,
                                              !.globCalls = r.globCalls],
                               !.allFiles = r.allFiles,
                               !.selectedFiles = r.selectedFiles]
  /\ UNCHANGED <<projectDir, tree, contentOf, config, disk, notices, loads>>

CallCreateNewFilename(imagePath) ==
  /\ last.op = "none"
  /\ last' = [NoCall EXCEPT !.op = "createNewFilename",
                            !.result = "ok",
                            !.imagePath = imagePath,
                            !.newFilename = CreateNewFilename(imagePath)]
  /\ UNCHANGED <<projectDir, tree, contentOf, config, disk, notices, loads>>

\* ----------------------------------------------------- specifications
\* The dirty check and the manifest store on every disk state.
Init ==
  /\ projectDir \in FsProjectDirs
  /\ tree \in Trees(FsEntries, MaxTreeFs)
  /\ contentOf \in ContentMaps(tree)
  /\ config \in FsBundleConfigs
  /\ disk \in Disks
  /\ notices = 0
  /\ last = NoCall
  /\ loads = NoLoads

Next ==
  \/ \E options \in FsOptionValues : CallHasUnoptimizedAssets(options)
  \/ CallReadAssetJson

Spec == Init /\ [][Next]_vars

\* The asset selector applied once to every project tree, configuration
\* and options value; the selector reads neither file contents nor the disk.
InitSel ==
  /\ projectDir \in ProjectDirs
  /\ tree \in Trees(1..Len(Universe), MaxTree)
  /\ contentOf = [i \in tree |-> 1]
  /\ config \in BundleConfigs
  /\ disk = [dirExists |-> FALSE, manifest |-> AbsentFile]
  /\ notices = 0
  /\ last = NoCall
  /\ loads = NoLoads

NextSel == \E options \in OptionValues : CallGetAssetFiles(options)

SpecSel == InitSel /\ [][NextSel]_vars

\* createNewFilename applied once to every path of at most MaxPathLen
\* tokens; the function reads neither the project nor the disk.
PathTokens == {"/", ".", "b", "photo", "png"}

ImagePaths == UNION { [1..n -> PathTokens] : n \in 0..MaxPathLen }

InitName ==
  /\ projectDir = <<"/", "proj">>
  /\ tree = {}
  /\ contentOf = [i \in tree |-> 1]
  /\ config = [defined |-> FALSE, value |-> <<>>]
  /\ disk = [dirExists |-> FALSE, manifest |-> AbsentFile]
  /\ notices = 0
  /\ last = NoCall
  /\ loads = NoLoads

NextName == \E imagePath \in ImagePaths : CallCreateNewFilename(imagePath)

SpecName == InitName /\ [][NextName]_vars

\* readAssetJsonAsync step by step, for invocations that run together on
\* one event loop: the code up to the first await runs without
\* interruption, and every await lets the other invocations run.

\* The synchronous start of invocation p: the directory is made when it is
\* missing, the existence of assets.json is tested and, when it is
\* missing, the notice is logged and writeAsync({}) is called and awaited.
LoadCheck(p) ==
  /\ loads.pc[p] = "start"
  /\ disk' = [disk EXCEPT !.dirExists = TRUE]
  /\ IF AssetJsonExists(disk)
     THEN /\ loads' = [loads EXCEPT !.pc[p] = "reading"]
          /\ notices' = notices
     ELSE /\ loads' = [loads EXCEPT !.pc[p] = "writing"]
          /\ notices' = notices + 1
  /\ UNCHANGED <<projectDir, tree, contentOf, config, last>>

\* The write of the empty record that invocation p awaits reaches the
\* disk; p goes on to readAsync.
LoadWriteLands(p) ==
  /\ loads.pc[p] = "writing"
  /\ disk' = [disk EXCEPT !.manifest = JsonWriteAsync(@, EmptyRecord)]
  /\ loads' = [loads EXCEPT !.pc[p] = "reading"]
  /\ UNCHANGED <<projectDir, tree, contentOf, config, notices, last>>

\* readAsync of invocation p reads the document as it is now, and p
\* returns; the first invocation to return is remembered.
LoadReadLands(p) ==
  /\ loads.pc[p] = "reading"
  /\ \E read \in { JsonReadAsync(disk.manifest) } :
        loads' = IF read.threw
                 THEN [loads EXCEPT !.pc[p] = "failed"]
                 ELSE [loads EXCEPT !.pc[p] = "done",
                                    !.assetInfo[p] = read.value,
                                    !.first = IF @ = 0 THEN p ELSE @]
  /\ UNCHANGED <<projectDir, tree, contentOf, config, disk, notices, last>>

\* The caller of the invocation that returned first records a digest as
\* optimized in the record it was given, calls
\* assetJson.writeAsync(assetInfo) and awaits it.
SaveRecord(p, hash) ==
  /\ loads.pc[p] = "done"
  /\ loads.first = p
  /\ loads' = [loads EXCEPT !.pc[p] = "saving",
                            !.assetInfo[p] =
                               [h \in DOMAIN @ \cup {hash} |-> TRUE]]
  /\ UNCHANGED <<projectDir, tree, contentOf, config, disk, notices, last>>

\* The write of the record that the caller of p awaits reaches the disk.
SaveLands(p) ==
  /\ loads.pc[p] = "saving"
  /\ disk' = [disk EXCEPT !.manifest = JsonWriteAsync(@, loads.assetInfo[p])]
  /\ loads' = [loads EXCEPT !.pc[p] = "saved", !.saved = TRUE]
  /\ UNCHANGED <<projectDir, tree, contentOf, config, notices, last>>

\* Invocations of readAssetJsonAsync running together on every disk
\* state, and the save of the one that returned first.
InitRace ==
  /\ projectDir = <<"/", "proj">>
  /\ tree = {}
  /\ contentOf = [i \in tree |-> 1]
  /\ config = [defined |-> FALSE, value |-> <<>>]
  /\ disk \in Disks
  /\ notices = 0
  /\ last = NoCall
  /\ loads = [NoLoads EXCEPT !.before = disk]

NextRace ==
  \E p \in 1..NumLoads :
     \/ LoadCheck(p)
     \/ LoadWriteLands(p)
     \/ LoadReadLands(p)
     \/ \E hash \in Digests : SaveRecord(p, hash)
     \/ SaveLands(p)

SpecRace == InitRace /\ [][NextRace]_vars

\* ============================================================ claims
\* What hashing a selected path yields on the current project.
HashOf(file) == CalculateHash(file, projectDir, tree, contentOf)

IsDirtyCheck == last.op = "hasUnoptimizedAssets"
IsLoad == last.op = "readAssetJson"
Returned == last.result \in {"true", "false"}

\* C1: when .expo-shared/assets.json does not exist, hasUnoptimizedAssetsAsync
\* returns true for every options value and every project tree, and it reads
\* no configuration, expands no glob and hashes no file.
C1_AbsentManifestIsDirty ==
  (IsDirtyCheck /\ ~last.before.manifest.exists) =>
     /\ last.result = "true"
     /\ last.effects.configReads = 0
     /\ last.effects.globCalls = 0
     /\ last.effects.hashCalls = 0

\* C1 witness: the check ran on a project with no manifest and no file at
\* all, with an include pattern passed.
C1_Witness ==
  /\ IsDirtyCheck
  /\ ~last.before.manifest.exists
  /\ tree = {}
  /\ HasInclude(last.options)
  /\ last.result = "true"

LacksOptimizedEntry(f, record) ==
  /\ ~HashOf(f).threw
  /\ \/ HashOf(f).hash \notin DOMAIN record
     \/ record[HashOf(f).hash] = FALSE

C3_DirtyCheckWritesNothing ==
  IsDirtyCheck =>
     /\ disk = last.before
     /\ last.effects.mkdirs = 0
     /\ last.effects.writes = 0
     /\ last.effects.notices = 0

\* The consequence for two calls in a row: a dirty check that follows a dirty check made on a
\* project without a manifest still returns true.
C3_SecondCallStillDirty ==
  (IsDirtyCheck /\ ~last.before.manifest.exists
     /\ last'.op = "hasUnoptimizedAssets") => last'.result = "true"

\* C3: hasUnoptimizedAssetsAsync is a pure query of the filesystem: no call
\* changes the disk, so a second call on a project without a manifest still
\* returns true.
C3_DirtyCheckIsPureQuery ==
  []C3_DirtyCheckWritesNothing /\ [][C3_SecondCallStillDirty]_vars

\* C3 witness: a second dirty check in a row on a project that has the
\* directory but no manifest.
C3_Witness ==
  /\ IsDirtyCheck
  /\ last.previous = "hasUnoptimizedAssets"
  /\ last.before.dirExists
  /\ ~last.before.manifest.exists
  /\ ~disk.manifest.exists
  /\ last.result = "true"

\* A load writes the empty record and logs the notice if and
\* only if the manifest did not exist when it was called; after a load the
\* directory and the document exist, and a load of an existing manifest
\* returns the stored record.
C4_LoadCreatesIffAbsent ==
  IsLoad =>
     /\ last.effects.writes = 1 <=> ~last.before.manifest.exists
     /\ last.effects.notices = 1 <=> ~last.before.manifest.exists
     /\ last.effects.writes \in {0, 1} /\ last.effects.notices \in {0, 1}
     /\ ~last.before.manifest.exists =>
          /\ disk.manifest = JsonDocument(EmptyRecord)
          /\ last.result = "ok" /\ last.assetInfo = EmptyRecord
     /\ last.before.manifest.exists => disk.manifest = last.before.manifest
     /\ disk.dirExists /\ disk.manifest.exists
     /\ last.result = "ok" => last.assetInfo = disk.manifest.data

\* In a sequence of loads: a load that follows a successful load writes
\* nothing, logs nothing and returns the record the disk held.
C4_LaterLoadOnlyReads ==
  (IsLoad /\ last.result = "ok" /\ last'.op = "readAssetJson") =>
     /\ last'.effects.writes = 0
     /\ last'.effects.notices = 0
     /\ notices' = notices
     /\ disk' = disk
     /\ last'.assetInfo = disk.manifest.data

\* C4: a load creates the manifest and logs the notice if and only if the
\* manifest was absent, and in a sequence of loads only the first one writes
\* or logs; every later one returns the stored record.
C4_LoadIsIdempotent ==
  []C4_LoadCreatesIffAbsent /\ [][C4_LaterLoadOnlyReads]_vars

\* C4 witness: the second of two loads in a row on a project that started
\* without a manifest; the first one created it and logged the one notice.
C4_Witness ==
  /\ IsLoad
  /\ last.previous = "readAssetJson"
  /\ notices = 1
  /\ last.effects.writes = 0
  /\ last.effects.notices = 0
  /\ last.result = "ok"

\* No step of the subsystem removes or changes an entry of a manifest
\* that exists: every digest of the on-disk record is still in it, with the
\* same value, after the step.
C5_EntryKept ==
  (disk.manifest.exists /\ disk.manifest.valid) =>
     /\ disk'.manifest.exists /\ disk'.manifest.valid
     /\ \A h \in DOMAIN disk.manifest.data :
           /\ h \in DOMAIN disk'.manifest.data
           /\ disk'.manifest.data[h] = disk.manifest.data[h]

\* C5: the persisted record is append-only under readAssetJsonAsync and
\* hasUnoptimizedAssetsAsync: over any sequence of calls every entry of an
\* existing manifest stays, with its value.
C5_RecordIsAppendOnly == [][C5_EntryKept]_vars

\* C5 witness: a load and a dirty check, one after the other, on a manifest
\* that holds an entry with value true and one with value false.
C5_Witness ==
  /\ last.op /= "none"
  /\ last.previous \notin {"none", last.op}
  /\ last.before.manifest.exists /\ last.before.manifest.valid
  /\ \E h1, h2 \in DOMAIN last.before.manifest.data :
        /\ last.before.manifest.data[h1] = TRUE
        /\ last.before.manifest.data[h2] = FALSE
  /\ disk.manifest = last.before.manifest

\* C6: on a manifest that exists and does not parse, readAssetJsonAsync
\* fails instead of returning a record and hasUnoptimizedAssetsAsync fails
\* instead of answering, and neither writes the document.
C6_CorruptManifestIsFatal ==
  (last.op \in {"readAssetJson", "hasUnoptimizedAssets"}
     /\ last.before.manifest.exists /\ ~last.before.manifest.valid) =>
     /\ last.result = "throws"
     /\ disk.manifest = last.before.manifest
     /\ last.effects.writes = 0

\* C6 witness: a dirty check that failed on the corrupt manifest which a
\* load had failed on before.
C6_Witness ==
  /\ IsDirtyCheck
  /\ last.previous = "readAssetJson"
  /\ last.before.manifest = CorruptFile
  /\ disk.manifest = CorruptFile
  /\ last.result = "throws"

\* ------------------------------------------- claims on the selector
IsSelection == last.op = "getAssetFiles"

NoOptions == [defined |-> FALSE, include |-> Undefined, exclude |-> Undefined]

\* The expansion of a pattern as a set: the entries of the tree outside the
\* ignored directories that the pattern matches.
Expansion(pattern) ==
  { Universe[i].path : i \in { j \in tree : /\ Match(pattern, Universe[j].path)
                                            /\ ~Ignored(Universe[j].path) } }

\* The union of the expansions of the bundle patterns in force.
BundleExpansion ==
  UNION { Expansion(p) : p \in Range(BundlePatterns(config)) }

\* An option is supplied when it is a non-empty string.
Supplied(pattern) == pattern /= Undefined /\ pattern /= <<>>

\* A path that ends in .png, .jpg or .jpeg in either case.
EndsInImageExtension(path) ==
  /\ Len(path) >= 2
  /\ path[Len(path) - 1] = "."
  /\ path[Len(path)] \in {"png", "PNG", "jpg", "JPG", "jpeg", "JPEG"}

\* The paths of a set of relative paths that name images, under the root.
ImagesUnderRoot(paths) ==
  { WithDirectory(projectDir, f) : f \in { g \in paths : EndsInImageExtension(g) } }

\* The set S a call selects from, by its options.
SelectionOf(options) ==
  LET base == IF options.defined /\ Supplied(options.include)
              THEN Expansion(options.include) ELSE BundleExpansion
      removed == IF options.defined /\ Supplied(options.exclude)
                 THEN Expansion(options.exclude) ELSE {}
  IN base \ removed

\* C7: selectedFiles is, as a set, the images under the root of S, where S
\* is the expansion of include when include is supplied and the union of
\* the bundle-pattern expansions otherwise, less the expansion of exclude
\* when exclude is supplied.
C7_SelectedIsIncludeLessExclude ==
  IsSelection =>
     Range(last.selectedFiles) = ImagesUnderRoot(SelectionOf(last.options))

\* C7 witness: files a.png, b.png and c.jpg, include "*.png" and exclude
\* "b.png": a.png alone is selected.
C7_Witness ==
  /\ IsSelection
  /\ { Universe[i].path : i \in tree }
       = { <<"a", ".", "png">>, <<"b", ".", "png">>, <<"c", ".", "jpg">> }
  /\ projectDir = <<"/", "proj">>
  /\ last.options = [defined |-> TRUE, include |-> StarPng, exclude |-> BPng]
  /\ last.selectedFiles = << <<"/", "proj", "/", "a", ".", "png">> >>

\* C8: allFiles is the same for every include and exclude value: it is what
\* the call without options returns, and it is, as a set, the images under
\* the root of the union of the bundle-pattern expansions, or of the
\* match-everything pattern when no pattern is configured.
C8_AllFilesIgnoresOptions ==
  IsSelection =>
     /\ last.allFiles
          = GetAssetFilesAsync(projectDir, NoOptions, tree, config).allFiles
     /\ Range(last.allFiles) = ImagesUnderRoot(BundleExpansion)
     /\ ~config.defined =>
          Range(last.allFiles) = ImagesUnderRoot(Expansion(Everything))

\* C8 witness: a call with an include and an exclude pattern that selected
\* some but not all of a non-empty allFiles.
C8_Witness ==
  /\ IsSelection
  /\ HasInclude(last.options) /\ HasExclude(last.options)
  /\ last.selectedFiles /= <<>>
  /\ Range(last.selectedFiles) /= Range(last.allFiles)
  /\ Len(last.allFiles) >= 2

\* C9: with an include pattern supplied, selectedFiles is the same under
\* every configuration of bundle patterns, and it is empty when the include
\* pattern matches no file, whatever allFiles holds.
C9_IncludeIsAuthoritative ==
  (IsSelection /\ last.options.defined /\ Supplied(last.options.include)) =>
     /\ \A c \in BundleConfigs :
           GetAssetFilesAsync(projectDir, last.options, tree, c).selectedFiles
             = last.selectedFiles
     /\ Expansion(last.options.include) = {} => last.selectedFiles = <<>>

\* C9 witness: an include pattern selected an image that is not in allFiles,
\* and allFiles is not empty.
C9_Witness ==
  /\ IsSelection
  /\ HasInclude(last.options)
  /\ last.allFiles /= <<>>
  /\ \E f \in Range(last.selectedFiles) : f \notin Range(last.allFiles)

\* The relative paths the call matched for allFiles, and those that
\* survived include and exclude.
MatchedAll == PushAll(BundlePatterns(config), tree)
MatchedSelected ==
  Filtered(last.options, tree, Included(last.options, tree, MatchedAll))

\* C10: every path of allFiles and of selectedFiles ends in .png, .jpg or
\* .jpeg in either case; every matched path with such an ending is kept,
\* in allFiles, and in selectedFiles when it survives include and exclude;
\* notes.txt is in neither.
C10_OnlyAndAllImages ==
  IsSelection =>
     /\ \A f \in Range(last.allFiles) \cup Range(last.selectedFiles) :
           EndsInImageExtension(f)
     /\ \A g \in Range(MatchedAll) :
           EndsInImageExtension(g) =>
              WithDirectory(projectDir, g) \in Range(last.allFiles)
     /\ \A g \in Range(MatchedSelected) :
           EndsInImageExtension(g) =>
              WithDirectory(projectDir, g) \in Range(last.selectedFiles)
     /\ WithDirectory(projectDir, <<"notes", ".", "txt">>)
           \notin Range(last.allFiles) \cup Range(last.selectedFiles)

\* C10 witness: the patterns matched notes.txt and assets/d.PNG, and d.PNG is
\* in both results.
C10_Witness ==
  /\ IsSelection
  /\ <<"notes", ".", "txt">> \in Range(MatchedAll) \cap Range(MatchedSelected)
  /\ LET d == WithDirectory(projectDir, <<"assets", "/", "d", ".", "PNG">>)
     IN d \in Range(last.allFiles) /\ d \in Range(last.selectedFiles)

\* ----------------------------------------- claims on createNewFilename
IsRename == last.op = "createNewFilename"

DotOrig == <<".", "orig">>

\* A path with its trailing separators removed.
RECURSIVE StripTrailingSeparators(_)
StripTrailingSeparators(p) ==
  IF p /= <<>> /\ p[Len(p)] = "/"
  THEN StripTrailingSeparators(SubSeq(p, 1, Len(p) - 1))
  ELSE p

\* A path with ".orig" inserted immediately before the final extension of
\* its last segment and nothing else changed; a last segment without an
\* extension (no dot, a leading dot only, or "..") gets ".orig" appended.
InsertOrig(p) ==
  LET slashes == { i \in 1..Len(p) : p[i] = "/" }
      lastSlash == IF slashes = {} THEN 0
                   ELSE CHOOSE i \in slashes : \A j \in slashes : j <= i
      dots == { i \in (lastSlash + 1)..Len(p) : p[i] = "." }
      lastDot == IF dots = {} THEN 0
                 ELSE CHOOSE i \in dots : \A j \in dots : j <= i
      hasExt == /\ lastDot > lastSlash + 1
                /\ SubSeq(p, lastSlash + 1, Len(p)) /= <<".", ".">>
  IN IF hasExt
     THEN SubSeq(p, 1, lastDot - 1) \o DotOrig \o SubSeq(p, lastDot, Len(p))
     ELSE p \o DotOrig

\* A path that names a file: it has a last segment and no trailing separator.
NamesFile(p) == p /= <<>> /\ p[Len(p)] /= "/"

\* A path path.normalize leaves as it is.
IsNormalized(p) == PathNormalize(p) = p

\* An absolute path that names a file and has no "." or ".." segment.
IsPlainAbsolute(p) ==
  /\ NamesFile(p)
  /\ p[1] = "/"
  /\ \A i \in 1..Len(Split(p)) : Split(p)[i] \notin {<<".">>, <<".", ".">>}

\* C11 as stated: the result is the path with ".orig" inserted immediately
\* before its final extension and nothing else changed, the directory part
\* included (checked on the absolute paths without "." and ".." segments).
C11_OnlyOrigInserted ==
  (IsRename /\ IsPlainAbsolute(last.imagePath)) =>
     last.newFilename = InsertOrig(last.imagePath)

\* C11 amended: the result is the normalized form of the path with ".orig"
\* inserted immediately before its final extension; it is that path itself,
\* directory part unchanged, when the path given is normalized; and the
\* result always differs from the path given.
C11_OrigInsertedAndNormalized ==
  IsRename =>
     /\ (\E i \in 1..Len(last.imagePath) : last.imagePath[i] /= "/") =>
           last.newFilename
             = PathNormalize(InsertOrig(StripTrailingSeparators(last.imagePath)))
     /\ (NamesFile(last.imagePath) /\ IsNormalized(last.imagePath)) =>
           last.newFilename = InsertOrig(last.imagePath)
     /\ last.newFilename /= last.imagePath
     /\ PathNormalize(last.newFilename) /= PathNormalize(last.imagePath)

\* C11 witness: "/photo.png" gives "/photo.orig.png".
C11_Witness ==
  /\ IsRename
  /\ last.imagePath = <<"/", "photo", ".", "png">>
  /\ IsNormalized(last.imagePath)
  /\ last.newFilename = <<"/", "photo", ".", "orig", ".", "png">>

\* ------------------------------------- claims on failures and on runs
\* A selected file the hash of which fails.
Unreadable(f) == HashOf(f).threw

\* C12: a selected file that cannot be hashed is skipped: the dirty check
\* goes on with the other selected files and returns an answer, true if and
\* only if one of the files it can hash lacks an optimized entry.
C12_UnreadableFileIsSkipped ==
  (IsDirtyCheck /\ last.before.manifest.exists /\ last.before.manifest.valid
     /\ \E f \in Range(last.selectedFiles) : Unreadable(f)) =>
     /\ Returned
     /\ last.result = "true" <=>
          \E f \in Range(last.selectedFiles) :
             LacksOptimizedEntry(f, last.before.manifest.data)

\* C13 as stated: a run interrupted right after its initial load leaves the
\* filesystem as it was before the run, also when the manifest did not
\* exist.
C13_LoadLeavesDiskAsItWas == IsLoad => disk = last.before

\* C13 amended: a run interrupted right after its initial load leaves the
\* filesystem as it was when the manifest existed before the run; when it
\* did not, the load has made .expo-shared and an assets.json that holds the
\* empty record.
C13_LoadOnlyAddsEmptyManifest ==
  IsLoad =>
     /\ last.before.manifest.exists => disk = last.before
     /\ ~last.before.manifest.exists =>
          disk = [dirExists |-> TRUE, manifest |-> JsonDocument(EmptyRecord)]

\* C13 witness: the first call of a behaviour is a load, on a project
\* without .expo-shared; the run stops there and the manifest is on disk.
C13_Witness ==
  /\ IsLoad
  /\ last.previous = "none"
  /\ ~last.before.dirExists
  /\ ~last.before.manifest.exists
  /\ disk.dirExists
  /\ disk.manifest = JsonDocument(EmptyRecord)

\* A path with two separators in a row.
HasDoubledSeparator(path) ==
  \E i \in 1..(Len(path) - 1) : path[i] = "/" /\ path[i + 1] = "/"

\* C14: no path of allFiles or of selectedFiles holds a doubled separator,
\* for every project root, one that holds "//" included.
C14_NoDoubledSeparator ==
  IsSelection =>
     \A f \in Range(last.allFiles) \cup Range(last.selectedFiles) :
        ~HasDoubledSeparator(f)

\* C15: allFiles and selectedFiles are sets: no path occurs twice in either,
\* also when several bundle patterns match the same file.
C15_NoPathTwice ==
  IsSelection =>
     /\ Cardinality(Range(last.allFiles)) = Len(last.allFiles)
     /\ Cardinality(Range(last.selectedFiles)) = Len(last.selectedFiles)

\* The positions of the selected files that lack an optimized entry.
MissPositions ==
  { i \in 1..Len(last.selectedFiles) :
      LacksOptimizedEntry(last.selectedFiles[i], last.before.manifest.data) }

\* C16: the dirty check hashes the selected files in order and stops at
\* the first miss: the number of files hashed is the position of the first
\* miss, and the answer is then true; it is the number of selected files
\* when there is no miss.
C16_StopsAtFirstMiss ==
  (IsDirtyCheck /\ last.before.manifest.exists /\ last.before.manifest.valid) =>
     IF MissPositions = {}
     THEN last.effects.hashCalls = Len(last.selectedFiles)
     ELSE /\ last.effects.hashCalls
               = CHOOSE i \in MissPositions : \A j \in MissPositions : i <= j
          /\ last.result = "true"

\* ------------------------------------------ claims without an include
\* A manifest that records every digest as optimized: the dirty check
\* then hashes every selected file it can reach.
FullRecord == [h \in Digests |-> TRUE]

\* The files the dirty check hashes on a disk holding the given record:
\* the loop takes selectedFiles in order, one hash per file.
HashedFiles(options, record) ==
  LET r == HasUnoptimizedAssetsAsync(
             projectDir, options, tree, contentOf, config,
             [dirExists |-> TRUE, manifest |-> JsonDocument(record)])
  IN SubSeq(r.selectedFiles, 1, r.effects.hashCalls)

\* C18: when include is not supplied, every selected file is in allFiles,
\* for every tree, bundle patterns and exclude, and selectedFiles is
\* allFiles when exclude is not supplied either; the dirty check then
\* hashes no file outside allFiles.
C18_WithoutIncludeSelectedWithinAll ==
  (IsSelection /\ ~HasInclude(last.options)) =>
     /\ Range(last.selectedFiles) \subseteq Range(last.allFiles)
     /\ ~HasExclude(last.options) => last.selectedFiles = last.allFiles
     /\ \A record \in {EmptyRecord, FullRecord} :
           Range(HashedFiles(last.options, record))
              \subseteq Range(last.allFiles)

\* C18 witness: no include, an exclude that removes some of allFiles and
\* keeps some, and a dirty check that hashes every kept file.
C18_Witness ==
  /\ IsSelection
  /\ ~HasInclude(last.options)
  /\ HasExclude(last.options)
  /\ last.selectedFiles /= <<>>
  /\ Range(last.selectedFiles) /= Range(last.allFiles)
  /\ HashedFiles(last.options, FullRecord) = last.selectedFiles

\* --------------------------------------------- claims on loads together
\* C17: under every interleaving of two readAssetJsonAsync invocations on
\* a project without a manifest, and after the save of a record that is
\* not empty by the invocation that returned first, no write of the empty
\* record reaches the disk: the manifest holds a record that is not empty
\* from the save on.
C17_CreationNeverLandsAfterSave ==
  (~loads.before.manifest.exists /\ loads.saved) =>
     (disk.manifest.exists /\ disk.manifest.data /= EmptyRecord)

====
